---------------------------- MODULE Spec2Model ----------------------------
(***************************************************************************)
(* ResumeFit & ATS Checker: the Analyze handler of app.py and the pure     *)
(* functions of utils.py it calls.                                         *)
(*                                                                         *)
(* A text is a sequence of characters.  A character is a one-character     *)
(* string for printable ASCII and a name for the others:                   *)
(*   "LF" newline, "TAB" tab, "U00A0" no-break space (all three match \s   *)
(*   and are stripped by str.strip), "U2022" the bullet glyph,             *)
(*   "U00C9"/"U00E9" E-acute upper/lower, "U0130" capital I with dot,      *)
(*   whose str.lower() is the two characters "i", "U0307".                 *)
(***************************************************************************)
EXTENDS Integers, Sequences, FiniteSets, TLC

VARIABLES pc, resume_file, ext, resume_text, jd_text, top_k,
          resume_clean, jd_clean, match_score, jd_keywords,
          present, missing, ats_report, suggestions, ran

vars == <<pc, resume_file, ext, resume_text, jd_text, top_k,
          resume_clean, jd_clean, match_score, jd_keywords,
          present, missing, ats_report, suggestions, ran>>

-----------------------------------------------------------------------------
(* Characters *)

AlphaU == <<"A","B","C","D","E","F","G","H","I","J","K","L","M",
            "N","O","P","Q","R","S","T","U","V","W","X","Y","Z">>

AlphaL == <<"a","b","c","d","e","f","g","h","i","j","k","l","m",
            "n","o","p","q","r","s","t","u","v","w","x","y","z">>

DigitSeq == <<"0","1","2","3","4","5","6","7","8","9">>

Range(s) == {s[i] : i \in 1..Len(s)}

Upper == Range(AlphaU)

Lower == Range(AlphaL)

Digit == Range(DigitSeq)

Whitespace == {" ", "LF", "TAB", "U00A0"}

AllowedSymbol == {"+", "#", ".", "-", "(", ")"}

Min(a, b) == IF a < b THEN a ELSE b

RECURSIVE Flatten(_)
Flatten(ss) == IF ss = <<>> THEN <<>> ELSE Head(ss) \o Flatten(Tail(ss))

RECURSIVE Join(_, _)
Join(sep, ss) ==
    IF ss = <<>> THEN <<>>
    ELSE IF Len(ss) = 1 THEN ss[1]
    ELSE ss[1] \o sep \o Join(sep, Tail(ss))

(* str.lower() of one character *)
LowerChar(c) ==
    IF c \in Upper THEN <<AlphaL[CHOOSE i \in 1..26 : AlphaU[i] = c]>>
    ELSE IF c = "U00C9" THEN <<"U00E9">>
    ELSE IF c = "U0130" THEN <<"i", "U0307">>
    ELSE <<c>>

str_lower(t) == Flatten([i \in 1..Len(t) |-> LowerChar(t[i])])

(* str.strip(): leading and trailing whitespace removed *)
RECURSIVE LStrip(_)
LStrip(t) == IF t # <<>> /\ Head(t) \in Whitespace THEN LStrip(Tail(t)) ELSE t

RECURSIVE RStrip(_)
RStrip(t) ==
    IF t # <<>> /\ t[Len(t)] \in Whitespace
    THEN RStrip(SubSeq(t, 1, Len(t) - 1)) ELSE t

str_strip(t) == RStrip(LStrip(t))

-----------------------------------------------------------------------------
(* clean_text *)

(* re.sub(r"[^a-z0-9+#.\-()\s]", " ", t) *)
SubDisallowed(t) ==
    [i \in 1..Len(t) |->
        IF t[i] \in Lower \cup Digit \cup AllowedSymbol \cup Whitespace
        THEN t[i] ELSE " "]

(* re.sub(r"\s+", " ", t): every maximal whitespace run becomes one space *)
RECURSIVE CollapseWs(_)
CollapseWs(t) ==
    IF t = <<>> THEN <<>>
    ELSE IF Head(t) \in Whitespace
         THEN <<" ">> \o CollapseWs(LStrip(t))
         ELSE <<Head(t)>> \o CollapseWs(Tail(t))

(* clean_text without the final strip *)
clean_text_nostrip(t) == CollapseWs(SubDisallowed(str_lower(t)))

clean_text(t) == str_strip(CollapseWs(SubDisallowed(str_lower(t))))

-----------------------------------------------------------------------------
(* TfidfVectorizer(ngram_range=(1,2), stop_words="english"): the analyzer *)

(* \w after lowercasing *)
WordChar == Lower \cup Digit \cup {"_", "U00E9"}

(* the members of sklearn's ENGLISH_STOP_WORDS that the model's texts use *)
StopWords == { <<"t","h","e">>, <<"a","n","d">>, <<"w","i","t","h">>,
               <<"w","e">>, <<"o","f">>, <<"t","o">>, <<"i","n">> }

(* the maximal runs of word characters, in order *)
RECURSIVE WordRuns(_, _)
WordRuns(t, cur) ==
    IF t = <<>> THEN (IF cur = <<>> THEN <<>> ELSE <<cur>>)
    ELSE IF Head(t) \in WordChar THEN WordRuns(Tail(t), Append(cur, Head(t)))
    ELSE (IF cur = <<>> THEN <<>> ELSE <<cur>>) \o WordRuns(Tail(t), <<>>)

(* token_pattern r"(?u)\b\w\w+\b" on the lowercased document *)
Tokenize(doc) == SelectSeq(WordRuns(str_lower(doc), <<>>), LAMBDA w : Len(w) >= 2)

(* stop words are dropped before the n-grams are formed *)
Tokens(doc) == SelectSeq(Tokenize(doc), LAMBDA w : w \notin StopWords)

Bigrams(toks) ==
    [i \in 1..(IF Len(toks) = 0 THEN 0 ELSE Len(toks) - 1) |->
        toks[i] \o <<" ">> \o toks[i + 1]]

(* the terms of one document: unigrams, then bigrams *)
Analyze(doc) == Tokens(doc) \o Bigrams(Tokens(doc))

(* the fitted vocabulary of a corpus *)
Vocabulary(docs) == UNION {Range(Analyze(docs[i])) : i \in 1..Len(docs)}

(* fit_transform raises ValueError("empty vocabulary; ...") *)
EmptyVocabulary(docs) == Vocabulary(docs) = {}

(* term frequency of a term in a document *)
Tf(term, doc) ==
    LET terms == Analyze(doc)
    IN Cardinality({i \in 1..Len(terms) : terms[i] = term})

(* document frequency of a term in a corpus *)
Df(term, docs) == Cardinality({i \in 1..Len(docs) : Tf(term, docs[i]) > 0})

-----------------------------------------------------------------------------
(* compute_match_score *)

(* smooth idf = ln((1+n)/(1+df)) + 1 for the two-document corpus, times 5: *)
(* df = 2 gives exactly 1 (5); df = 1 gives ln(3/2)+1 = 1.405.., taken as  *)
(* 7/5 (7).                                                                *)
Idf5(term, docs) == IF Df(term, docs) = 2 THEN 5 ELSE 7

Weight(term, doc, docs) == Tf(term, doc) * Idf5(term, docs)

RECURSIVE SumOver(_, _)
SumOver(S, f) ==
    IF S = {} THEN 0
    ELSE LET x == CHOOSE y \in S : TRUE IN f[x] + SumOver(S \ {x}, f)

(* a document's row of X, before the l2 normalisation *)
Row(doc, docs) == [t \in Vocabulary(docs) |-> Weight(t, doc, docs)]

Dot(a, b) == SumOver(DOMAIN a, [t \in DOMAIN a |-> a[t] * b[t]])

(* floor(10000 * num / den) for 0 <= num <= den, den > 0, by long division *)
Ratio10000(num, den) ==
    LET q0 == num \div den
        r0 == num % den
        q1 == (100 * r0) \div den
        r1 == (100 * r0) % den
        q2 == (100 * r1) \div den
    IN 10000 * q0 + 100 * q1 + q2

ISqrt(v) == CHOOSE p \in 0..100 : p * p <= v /\ (p = 100 \/ (p + 1) * (p + 1) > v)

(* cosine_similarity(X[0:1], X[1:2]) in hundredths, rounded down; a zero   *)
(* row has its norm replaced by 1, so the similarity is 0.0                *)
CosineHundredths(jd, resume) ==
    LET docs == <<jd, resume>>
        x0   == Row(jd, docs)
        x1   == Row(resume, docs)
        d    == Dot(x0, x1)
        na   == Dot(x0, x0)
        nb   == Dot(x1, x1)
    IN IF na = 0 \/ nb = 0 THEN 0
       ELSE ISqrt(Ratio10000(d * d, na * nb))

(* the result of compute_match_score: raised, or the score in hundredths;  *)
(* top_terms, which no caller reads, is left out                           *)
compute_match_score(resume_clean_, jd_clean_) ==
    IF EmptyVocabulary(<<jd_clean_, resume_clean_>>)
    THEN [raised |-> TRUE, score |-> 0]
    ELSE [raised |-> FALSE, score |-> CosineHundredths(jd_clean_, resume_clean_)]

-----------------------------------------------------------------------------
(* extract_keywords *)

(* idf over a one-document corpus is ln(2/2)+1 = 1 and the l2 norm divides *)
(* every entry by the same positive number, so arr is ordered as the term  *)
(* counts are                                                              *)
KeywordWeight(term, jd) == Tf(term, jd)

(* len(arr.argsort()[-top_k:]) for top_k >= 0: the slice [-0:] is [0:] *)
SliceTailLen(n, k) == IF k = 0 THEN n ELSE Min(k, n)

(* The index sets arr.argsort()[-top_k:] can be.  argsort is not stable,   *)
(* so among equal weights any terms may fill the last places; the order    *)
(* within idx is lost in the later sort.                                   *)
TopSets(jd, k) ==
    LET V == Vocabulary(<<jd>>)
    IN {S \in SUBSET V :
          /\ Cardinality(S) = SliceTailLen(Cardinality(V), k)
          /\ \A a \in S : \A b \in V \ S :
                KeywordWeight(a, jd) >= KeywordWeight(b, jd)}

(* re.search(r"[a-z0-9]", term) *)
HasAlnum(term) == \E i \in 1..Len(term) : term[i] \in Lower \cup Digit

(* code point order of the characters a term can hold *)
CodeOrder == <<" ">> \o DigitSeq \o <<"_">> \o AlphaL \o <<"U00E9">>

Ord(c) == CHOOSE i \in 1..Len(CodeOrder) : CodeOrder[i] = c

RECURSIVE StrLess(_, _)
StrLess(a, b) ==
    IF b = <<>> THEN FALSE
    ELSE IF a = <<>> THEN TRUE
    ELSE IF Head(a) # Head(b) THEN Ord(Head(a)) < Ord(Head(b))
    ELSE StrLess(Tail(a), Tail(b))

(* len(x.split()) of a term: its words are joined by single spaces *)
WordCount(x) == Cardinality({i \in 1..Len(x) : x[i] = " "}) + 1

(* the sort key (-len(x.split()), x) *)
KeyLess(a, b) ==
    \/ WordCount(a) > WordCount(b)
    \/ WordCount(a) = WordCount(b) /\ StrLess(a, b)

(* sorted(kws, key=...) of a duplicate-free collection *)
RECURSIVE SortedByKey(_)
SortedByKey(S) ==
    IF S = {} THEN <<>>
    ELSE LET m == CHOOSE x \in S : \A y \in S \ {x} : KeyLess(x, y)
         IN <<m>> \o SortedByKey(S \ {m})

kws_sorted(S) == SortedByKey({t \in S : HasAlnum(t)})

(* the results extract_keywords can give: raised, or a keyword list *)
extract_keywords(jd_clean_, top_k_) ==
    IF EmptyVocabulary(<<jd_clean_>>)
    THEN {[raised |-> TRUE, kws |-> <<>>]}
    ELSE {[raised |-> FALSE, kws |-> kws_sorted(S)] : S \in TopSets(jd_clean_, top_k_)}

-----------------------------------------------------------------------------
(* Substring search *)

IsSubstringAt(k, t, i) == \A j \in 1..Len(k) : t[i + j - 1] = k[j]

(* k in t *)
Contains(t, k) == \E i \in 1..(Len(t) - Len(k) + 1) : IsSubstringAt(k, t, i)

-----------------------------------------------------------------------------
(* The structural checks *)

SECTION_HINTS == <<
    <<"s","u","m","m","a","r","y">>,
    <<"p","r","o","f","i","l","e">>,
    <<"s","k","i","l","l","s">>,
    <<"t","e","c","h","n","i","c","a","l"," ","s","k","i","l","l","s">>,
    <<"e","x","p","e","r","i","e","n","c","e">>,
    <<"w","o","r","k"," ","e","x","p","e","r","i","e","n","c","e">>,
    <<"p","r","o","j","e","c","t","s">>,
    <<"e","d","u","c","a","t","i","o","n">>,
    <<"c","e","r","t","i","f","i","c","a","t","i","o","n","s">>,
    <<"a","w","a","r","d","s">>
>>

Letter == Upper \cup Lower

(* [A-Za-z0-9._%+-] *)
EmailLocalChar == Letter \cup Digit \cup {".", "_", "%", "+", "-"}

(* [A-Za-z0-9.-] *)
EmailDomainChar == Letter \cup Digit \cup {".", "-"}

(* re.search(r"[A-Za-z0-9._%+-]+@[A-Za-z0-9.-]+\.[A-Za-z]{2,}", text) *)
HasEmail(text) ==
    \E i \in 2..Len(text) :
        /\ text[i] = "@"
        /\ text[i - 1] \in EmailLocalChar
        /\ \E k \in (i + 2)..(Len(text) - 2) :
              /\ \A j \in (i + 1)..(k - 1) : text[j] \in EmailDomainChar
              /\ text[k] = "."
              /\ text[k + 1] \in Letter
              /\ text[k + 2] \in Letter

(* the {7,} of the phone pattern *)
PhoneMiddleMin == 7

(* [\d\-\s] *)
PhoneMiddleChar == Digit \cup {"-"} \cup Whitespace

(* re.search(r"(\+?\d[\d\-\s]{7,}\d)", text): a digit, at least 7 digits, *)
(* hyphens or whitespace characters, and a digit                           *)
HasPhone(text) ==
    \E i \in 1..Len(text) : \E j \in (i + PhoneMiddleMin + 1)..Len(text) :
        /\ text[i] \in Digit
        /\ text[j] \in Digit
        /\ \A m \in (i + 1)..(j - 1) : text[m] \in PhoneMiddleChar

has_contact_info(text) == [email |-> HasEmail(text), phone |-> HasPhone(text)]

has_sections(text) ==
    SelectSeq(SECTION_HINTS, LAMBDA h : Contains(str_lower(text), h))

(* len(re.findall(r"(bullet glyph)|- |\* ", text)): non-overlapping, left to right *)
RECURSIVE BulletCount(_)
BulletCount(t) ==
    IF t = <<>> THEN 0
    ELSE IF Head(t) = "U2022" THEN 1 + BulletCount(Tail(t))
    ELSE IF Head(t) \in {"-", "*"} /\ Len(t) >= 2 /\ t[2] = " "
         THEN 1 + BulletCount(Tail(Tail(t)))
    ELSE BulletCount(Tail(t))

bullet_usage(text) == BulletCount(text) >= 5

(* re.search(r"(20\d{2}|19\d{2})", text) *)
has_dates(text) ==
    \E i \in 1..(Len(text) - 3) :
        /\ <<text[i], text[i + 1]>> \in {<<"2", "0">>, <<"1", "9">>}
        /\ text[i + 2] \in Digit
        /\ text[i + 3] \in Digit

(* A message or a suggestion is the sequence of the pieces its f-string    *)
(* concatenates: the literal pieces as strings, the interpolated texts     *)
(* character by character.                                                 *)
SectionsMsg(sections) ==
    <<"Detected sections: ">>
    \o (IF sections = <<>> THEN <<"none">> ELSE Join(<<", ">>, sections))
    \o <<".">>

(* ats_checks with Tables/Graphics measured instead of always ok *)
ats_checks_measured(resume_text_, ext_) ==
    LET c        == has_contact_info(resume_text_)
        sections == has_sections(resume_text_)
        file_ok  == ext_ = "pdf" \/ ext_ = "docx"
    IN << [name |-> "File Type", ok |-> file_ok,
           msg |-> <<"PDF/DOCX are ATS-safe. Avoid images/scans.">>],
          [name |-> "Contact Info", ok |-> c.email /\ c.phone,
           msg |-> <<"Include a professional email and reachable phone number.">>],
          [name |-> "Clear Sections", ok |-> Len(sections) >= 3,
           msg |-> SectionsMsg(sections)],
          [name |-> "Bullet Structure", ok |-> bullet_usage(resume_text_),
           msg |-> <<"Use concise bullet points with action verbs and impact.">>],
          [name |-> "Dates Present", ok |-> has_dates(resume_text_),
           msg |-> <<"Include years for roles/projects (YYYY-YYYY).">>],
          [name |-> "Tables/Graphics", ok |-> ~Contains(resume_text_, <<"TAB">>),
           msg |-> <<"Use tables sparingly; some ATS drops table content.">>] >>

(* the dict ats_checks returns, as its items in insertion order; the      *)
(* non-ASCII glyphs of the literal messages are left out or written in    *)
(* ASCII                                                                   *)
ats_checks(resume_text_, ext_) ==
    LET c        == has_contact_info(resume_text_)
        sections == has_sections(resume_text_)
        file_ok  == ext_ = "pdf" \/ ext_ = "docx"
    IN << [name |-> "File Type", ok |-> file_ok,
           msg |-> <<"PDF/DOCX are ATS-safe. Avoid images/scans.">>],
          [name |-> "Contact Info", ok |-> c.email /\ c.phone,
           msg |-> <<"Include a professional email and reachable phone number.">>],
          [name |-> "Clear Sections", ok |-> Len(sections) >= 3,
           msg |-> SectionsMsg(sections)],
          [name |-> "Bullet Structure", ok |-> bullet_usage(resume_text_),
           msg |-> <<"Use concise bullet points with action verbs and impact.">>],
          [name |-> "Dates Present", ok |-> has_dates(resume_text_),
           msg |-> <<"Include years for roles/projects (YYYY-YYYY).">>],
          [name |-> "Tables/Graphics", ok |-> TRUE,
           msg |-> <<"Use tables sparingly; some ATS drops table content.">>] >>

-----------------------------------------------------------------------------
(* suggest_improvements; the score is in hundredths *)

(* match_score < 0.45 *)
LowGate == 45

(* match_score < 0.65 *)
MidGate == 65

(* missing[:12] *)
MissingShown == 12

LowScoreSuggestion ==
    <<"Customize your summary and top bullets with JD keywords to raise the match score.">>

MidScoreSuggestion ==
    <<"Strengthen skills and achievements using exact phrasing from the JD where truthful.">>

GenericSuggestions == <<
    <<"Start bullets with strong action verbs (Built, Optimized, Automated) and quantify impact.">>,
    <<"Keep formatting simple: one column, standard fonts, no headers/footers.">>,
    <<"Save as text-based PDF (not scanned).">> >>

(* the gates with <= in place of < *)
ScoreGateInclusive(score) ==
    IF score <= LowGate THEN <<LowScoreSuggestion>>
    ELSE IF score <= MidGate THEN <<MidScoreSuggestion>>
    ELSE <<>>

(* lines 99-102 *)
ScoreGate(score) ==
    IF score < LowGate THEN <<LowScoreSuggestion>>
    ELSE IF score < MidGate THEN <<MidScoreSuggestion>>
    ELSE <<>>

MissingSuggestion(missing_) ==
    <<"Incorporate missing role-specific keywords where accurate: ">>
    \o Join(<<", ">>, SubSeq(missing_, 1, Min(MissingShown, Len(missing_))))
    \o <<".">>

KeywordGaps(missing_) ==
    IF missing_ # <<>> THEN <<MissingSuggestion(missing_)>> ELSE <<>>

AtsSuggestion(item) ==
    <<"ATS: ">> \o item.msg \o <<" (Improve: ", item.name, ").">>

RECURSIVE AtsFixes(_)
AtsFixes(report) ==
    IF report = <<>> THEN <<>>
    ELSE (IF ~Head(report).ok THEN <<AtsSuggestion(Head(report))>> ELSE <<>>)
         \o AtsFixes(Tail(report))

(* suggest_improvements with the generic suggestions ahead of the ATS fixes *)
suggest_improvements_generic_first(match_score_, present_, missing_, ats_report_) ==
    ScoreGate(match_score_) \o KeywordGaps(missing_)
        \o GenericSuggestions \o AtsFixes(ats_report_)

suggest_improvements(match_score_, present_, missing_, ats_report_) ==
    ScoreGate(match_score_) \o KeywordGaps(missing_)
        \o AtsFixes(ats_report_) \o GenericSuggestions

-----------------------------------------------------------------------------
(* Coverage: app.py lines 53-54 *)

(* str.split(): the maximal runs of non-whitespace characters *)
RECURSIVE SplitWs(_, _)
SplitWs(t, cur) ==
    IF t = <<>> THEN (IF cur = <<>> THEN <<>> ELSE <<cur>>)
    ELSE IF Head(t) \notin Whitespace THEN SplitWs(Tail(t), Append(cur, Head(t)))
    ELSE (IF cur = <<>> THEN <<>> ELSE <<cur>>) \o SplitWs(Tail(t), <<>>)

(* present computed by whole-word membership instead of substring search *)
present_of_words(jd_keywords_, resume_clean_) ==
    SelectSeq(jd_keywords_,
              LAMBDA k : str_lower(k) \in Range(SplitWs(resume_clean_, <<>>)))

present_of(jd_keywords_, resume_clean_) ==
    SelectSeq(jd_keywords_, LAMBDA k : Contains(resume_clean_, str_lower(k)))

missing_of(jd_keywords_, resume_clean_) ==
    SelectSeq(jd_keywords_, LAMBDA k : ~Contains(resume_clean_, str_lower(k)))

-----------------------------------------------------------------------------
(* Bounds and inputs *)

MaxResumeFrags == 2

MaxJdFrags == 2

MaxCleanLen == 4

MaxKwFrags == 3

MaxTopK == 3

MaxScoreFrags == 2

MaxAtsFrags == 3

MaxMissing == 13

MaxChecks == 2

SeqsUpTo(S, n) == UNION {[1..m -> S] : m \in 0..n}

TextsOf(frags, n) == {Flatten(fs) : fs \in SeqsUpTo(frags, n)}

ResumeFrags == { <<"p","y">>, <<" ","s","q","l">>, <<"LF">>, <<"!">> }

JdFrags == { <<"P","y"," ">>, <<"s","q","l"," ">>, <<"t","h","e"," ">> }

CleanAlphabet == {"A", "b", "1", "+", "!", " ", "LF", "U0130"}

KwFrags == { <<"p","y"," ">>, <<"s","q","l"," ">>, <<"t","h","e"," ">>, <<"g","o"," ">> }

ScoreFrags == { <<"p","y"," ">>, <<"s","q","l"," ">>, <<"t","h","e"," ">> }

AtsFrags == { <<"a","@","b",".","c","o">>, <<"1","2","3","4","5","6","7">>,
              <<"1","2">>, <<" ">>, <<"TAB">>, <<"U2022">>,
              <<"-"," ","*"," ","-"," ","*"," ">>, <<"2","0","2","0">>,
              <<"s","k","i","l","l","s">>, <<"S","u","m","m","a","r","y">>,
              <<"e","d","u","c","a","t","i","o","n">> }

Exts == {"pdf", "docx", "txt"}

(* the keywords a caller of suggest_improvements may pass *)
KeywordPool == << <<"a">>, <<"b">>, <<"c">>, <<"d">>, <<"e">>, <<"f">>, <<"g">>,
                  <<"h">>, <<"i">>, <<"j">>, <<"k">>, <<"l">>, <<"m">>, <<"n">>,
                  <<"o">>, <<"p">> >>

CheckNames == {"File Type", "Contact Info", "Other"}

CheckItems == [name : CheckNames, ok : BOOLEAN, msg : {<<"fix it">>}]

(* a dict has one item per key *)
Reports ==
    {r \in SeqsUpTo(CheckItems, MaxChecks) :
        \A i, j \in 1..Len(r) : i # j => r[i].name # r[j].name}

-----------------------------------------------------------------------------
(* The Analyze handler of app.py, one run of the script.                   *)
(* resume_file is the upload: whether there is one, the extension of its   *)
(* name, the text its payload holds and whether the payload is corrupt.    *)
(* ran is the set of pipeline stages that have happened in this run.       *)

NoFile == [present |-> FALSE, ext |-> "txt", text |-> <<>>, corrupt |-> FALSE]

Files ==
    {NoFile}
    \cup [present : {TRUE}, ext : Exts,
          text : TextsOf(ResumeFrags, MaxResumeFrags), corrupt : {FALSE}]
    \cup [present : {TRUE}, ext : {"pdf", "docx"}, text : {<<>>}, corrupt : {TRUE}]

Unset ==
    /\ ext = "txt"
    /\ resume_text = <<>>
    /\ resume_clean = <<>>
    /\ jd_clean = <<>>
    /\ match_score = 0
    /\ jd_keywords = <<>>
    /\ present = <<>>
    /\ missing = <<>>
    /\ ats_report = <<>>
    /\ suggestions = <<>>
    /\ ran = {}

Init ==
    /\ pc = "clicked"
    /\ resume_file \in Files
    /\ jd_text \in TextsOf(JdFrags, MaxJdFrags) \cup {<<"!">>}
    /\ top_k = 40
    /\ Unset

(* lines 29-31 *)
Validate ==
    /\ pc = "clicked"
    /\ IF ~resume_file.present \/ str_strip(jd_text) = <<>>
       THEN pc' = "stopped" /\ ran' = ran \cup {"warning"}
       ELSE pc' = "read" /\ ran' = ran
    /\ UNCHANGED <<resume_file, ext, resume_text, jd_text, top_k, resume_clean,
                   jd_clean, match_score, jd_keywords, present, missing,
                   ats_report, suggestions>>

(* lines 34-40; a corrupt pdf or docx payload makes the parser raise *)
ReadResume ==
    /\ pc = "read"
    /\ ext' = resume_file.ext
    /\ IF resume_file.corrupt
       THEN pc' = "crashed" /\ UNCHANGED <<resume_text, ran>>
       ELSE /\ pc' = "check_text"
            /\ resume_text' = resume_file.text
            /\ ran' = ran \cup {"extract"}
    /\ UNCHANGED <<resume_file, jd_text, top_k, resume_clean, jd_clean,
                   match_score, jd_keywords, present, missing, ats_report,
                   suggestions>>

(* lines 42-44 without the st.stop() *)
CheckTextNoStop ==
    /\ pc = "check_text"
    /\ pc' = "clean"
    /\ ran' = IF str_strip(resume_text) = <<>> THEN ran \cup {"error"} ELSE ran
    /\ UNCHANGED <<resume_file, ext, resume_text, jd_text, top_k, resume_clean,
                   jd_clean, match_score, jd_keywords, present, missing,
                   ats_report, suggestions>>

(* lines 42-44 *)
CheckText ==
    /\ pc = "check_text"
    /\ IF str_strip(resume_text) = <<>>
       THEN pc' = "stopped" /\ ran' = ran \cup {"error"}
       ELSE pc' = "clean" /\ ran' = ran
    /\ UNCHANGED <<resume_file, ext, resume_text, jd_text, top_k, resume_clean,
                   jd_clean, match_score, jd_keywords, present, missing,
                   ats_report, suggestions>>

(* lines 47-48 *)
Clean ==
    /\ pc = "clean"
    /\ resume_clean' = clean_text(resume_text)
    /\ jd_clean' = clean_text(jd_text)
    /\ ran' = ran \cup {"normalize"}
    /\ pc' = "score"
    /\ UNCHANGED <<resume_file, ext, resume_text, jd_text, top_k, match_score,
                   jd_keywords, present, missing, ats_report, suggestions>>

(* line 51 *)
Score ==
    /\ pc = "score"
    /\ LET r == compute_match_score(resume_clean, jd_clean)
       IN IF r.raised
          THEN pc' = "crashed" /\ UNCHANGED <<match_score, ran>>
          ELSE /\ pc' = "keywords"
               /\ match_score' = r.score
               /\ ran' = ran \cup {"score"}
    /\ UNCHANGED <<resume_file, ext, resume_text, jd_text, top_k, resume_clean,
                   jd_clean, jd_keywords, present, missing, ats_report,
                   suggestions>>

(* line 52 *)
Keywords ==
    /\ pc = "keywords"
    /\ \E r \in extract_keywords(jd_clean, top_k) :
          IF r.raised
          THEN pc' = "crashed" /\ UNCHANGED <<jd_keywords, ran>>
          ELSE /\ pc' = "coverage"
               /\ jd_keywords' = r.kws
               /\ ran' = ran \cup {"keywords"}
    /\ UNCHANGED <<resume_file, ext, resume_text, jd_text, top_k, resume_clean,
                   jd_clean, match_score, present, missing, ats_report,
                   suggestions>>

(* lines 53-54 *)
Coverage ==
    /\ pc = "coverage"
    /\ present' = present_of(jd_keywords, resume_clean)
    /\ missing' = missing_of(jd_keywords, resume_clean)
    /\ ran' = ran \cup {"coverage"}
    /\ pc' = "ats"
    /\ UNCHANGED <<resume_file, ext, resume_text, jd_text, top_k, resume_clean,
                   jd_clean, match_score, jd_keywords, ats_report, suggestions>>

(* line 57 *)
Ats ==
    /\ pc = "ats"
    /\ ats_report' = ats_checks(resume_text, ext)
    /\ ran' = ran \cup {"checks"}
    /\ pc' = "suggest"
    /\ UNCHANGED <<resume_file, ext, resume_text, jd_text, top_k, resume_clean,
                   jd_clean, match_score, jd_keywords, present, missing,
                   suggestions>>

(* lines 60-65 *)
Suggest ==
    /\ pc = "suggest"
    /\ suggestions' = suggest_improvements(match_score, present, missing, ats_report)
    /\ ran' = ran \cup {"suggest"}
    /\ pc' = "display"
    /\ UNCHANGED <<resume_file, ext, resume_text, jd_text, top_k, resume_clean,
                   jd_clean, match_score, jd_keywords, present, missing,
                   ats_report>>

(* lines 68-94: the results are shown *)
Display ==
    /\ pc = "display"
    /\ ran' = ran \cup {"display"}
    /\ pc' = "export"
    /\ UNCHANGED <<resume_file, ext, resume_text, jd_text, top_k, resume_clean,
                   jd_clean, match_score, jd_keywords, present, missing,
                   ats_report, suggestions>>

(* lines 97-119: the checklist is built and offered for download *)
Export ==
    /\ pc = "export"
    /\ ran' = ran \cup {"export"}
    /\ pc' = "done"
    /\ UNCHANGED <<resume_file, ext, resume_text, jd_text, top_k, resume_clean,
                   jd_clean, match_score, jd_keywords, present, missing,
                   ats_report, suggestions>>

Next ==
    \/ Validate
    \/ ReadResume
    \/ CheckText
    \/ Clean
    \/ Score
    \/ Keywords
    \/ Coverage
    \/ Ats
    \/ Suggest
    \/ Display
    \/ Export

Spec == Init /\ [][Next]_vars

-----------------------------------------------------------------------------
(* The pure functions on their own: Init draws the arguments, the action   *)
(* applies the function.                                                   *)

Normalized(frags, n) == {clean_text(t) : t \in TextsOf(frags, n)}

(* clean_text, and clean_text of its own result *)
InitClean ==
    /\ pc = "clean_in"
    /\ resume_file = NoFile
    /\ resume_text \in SeqsUpTo(CleanAlphabet, MaxCleanLen)
    /\ jd_text = <<>>
    /\ top_k = 40
    /\ ext = "txt" /\ resume_clean = <<>> /\ jd_clean = <<>> /\ match_score = 0
    /\ jd_keywords = <<>> /\ present = <<>> /\ missing = <<>>
    /\ ats_report = <<>> /\ suggestions = <<>> /\ ran = {}

CleanApply ==
    /\ pc = "clean_in"
    /\ resume_clean' = clean_text(resume_text)
    /\ pc' = "clean_out"
    /\ UNCHANGED <<resume_file, ext, resume_text, jd_text, top_k, jd_clean,
                   match_score, jd_keywords, present, missing, ats_report,
                   suggestions, ran>>

CleanAgain ==
    /\ pc = "clean_out"
    /\ jd_text' = resume_clean
    /\ jd_clean' = clean_text(resume_clean)
    /\ pc' = "clean_twice"
    /\ UNCHANGED <<resume_file, ext, resume_text, top_k, resume_clean,
                   match_score, jd_keywords, present, missing, ats_report,
                   suggestions, ran>>

NextClean == CleanApply \/ CleanAgain

SpecClean == InitClean /\ [][NextClean]_vars

(* extract_keywords *)
InitKeywords ==
    /\ pc = "kw_in"
    /\ resume_file = NoFile
    /\ jd_clean \in Normalized(KwFrags, MaxKwFrags)
    /\ top_k \in 0..MaxTopK \cup {40}
    /\ jd_text = <<>> /\ ext = "txt" /\ resume_text = <<>> /\ resume_clean = <<>>
    /\ match_score = 0 /\ jd_keywords = <<>> /\ present = <<>> /\ missing = <<>>
    /\ ats_report = <<>> /\ suggestions = <<>> /\ ran = {}

KeywordsReturn ==
    /\ pc = "kw_in"
    /\ \E r \in extract_keywords(jd_clean, top_k) :
          /\ ~r.raised
          /\ jd_keywords' = r.kws
    /\ pc' = "kw_out"
    /\ UNCHANGED <<resume_file, ext, resume_text, jd_text, top_k, resume_clean,
                   jd_clean, match_score, present, missing, ats_report,
                   suggestions, ran>>

KeywordsRaise ==
    /\ pc = "kw_in"
    /\ \E r \in extract_keywords(jd_clean, top_k) : r.raised
    /\ pc' = "kw_raised"
    /\ UNCHANGED <<resume_file, ext, resume_text, jd_text, top_k, resume_clean,
                   jd_clean, match_score, jd_keywords, present, missing,
                   ats_report, suggestions, ran>>

NextKeywords == KeywordsReturn \/ KeywordsRaise

SpecKeywords == InitKeywords /\ [][NextKeywords]_vars

(* compute_match_score *)
InitScore ==
    /\ pc = "score_in"
    /\ resume_file = NoFile
    /\ jd_clean \in Normalized(ScoreFrags, MaxScoreFrags)
    /\ resume_clean \in Normalized(ScoreFrags, MaxScoreFrags)
    /\ top_k = 40
    /\ jd_text = <<>> /\ ext = "txt" /\ resume_text = <<>>
    /\ match_score = 0 /\ jd_keywords = <<>> /\ present = <<>> /\ missing = <<>>
    /\ ats_report = <<>> /\ suggestions = <<>> /\ ran = {}

ScoreReturn ==
    /\ pc = "score_in"
    /\ ~compute_match_score(resume_clean, jd_clean).raised
    /\ match_score' = compute_match_score(resume_clean, jd_clean).score
    /\ pc' = "score_out"
    /\ UNCHANGED <<resume_file, ext, resume_text, jd_text, top_k, resume_clean,
                   jd_clean, jd_keywords, present, missing, ats_report,
                   suggestions, ran>>

ScoreRaise ==
    /\ pc = "score_in"
    /\ compute_match_score(resume_clean, jd_clean).raised
    /\ pc' = "score_raised"
    /\ UNCHANGED <<resume_file, ext, resume_text, jd_text, top_k, resume_clean,
                   jd_clean, match_score, jd_keywords, present, missing,
                   ats_report, suggestions, ran>>

NextScore == ScoreReturn \/ ScoreRaise

SpecScore == InitScore /\ [][NextScore]_vars

(* ats_checks *)
InitAts ==
    /\ pc = "ats_in"
    /\ resume_file = NoFile
    /\ resume_text \in TextsOf(AtsFrags, MaxAtsFrags)
    /\ ext \in Exts
    /\ top_k = 40
    /\ jd_text = <<>> /\ resume_clean = <<>> /\ jd_clean = <<>>
    /\ match_score = 0 /\ jd_keywords = <<>> /\ present = <<>> /\ missing = <<>>
    /\ ats_report = <<>> /\ suggestions = <<>> /\ ran = {}

AtsApply ==
    /\ pc = "ats_in"
    /\ ats_report' = ats_checks(resume_text, ext)
    /\ pc' = "ats_out"
    /\ UNCHANGED <<resume_file, ext, resume_text, jd_text, top_k, resume_clean,
                   jd_clean, match_score, jd_keywords, present, missing,
                   suggestions, ran>>

NextAts == AtsApply

SpecAts == InitAts /\ [][NextAts]_vars

(* suggest_improvements *)
InitSuggest ==
    /\ pc = "suggest_in"
    /\ resume_file = NoFile
    /\ match_score \in 0..100
    /\ present \in {<<>>, <<KeywordPool[16]>>}
    /\ missing \in {SubSeq(KeywordPool, 1, m) : m \in 0..MaxMissing}
    /\ ats_report \in Reports
    /\ top_k = 40
    /\ jd_text = <<>> /\ ext = "txt" /\ resume_text = <<>> /\ resume_clean = <<>>
    /\ jd_clean = <<>> /\ jd_keywords = <<>> /\ suggestions = <<>> /\ ran = {}

SuggestApply ==
    /\ pc = "suggest_in"
    /\ suggestions' = suggest_improvements(match_score, present, missing, ats_report)
    /\ pc' = "suggest_out"
    /\ UNCHANGED <<resume_file, ext, resume_text, jd_text, top_k, resume_clean,
                   jd_clean, match_score, jd_keywords, present, missing,
                   ats_report, ran>>

NextSuggest == SuggestApply

SpecSuggest == InitSuggest /\ [][NextSuggest]_vars

-----------------------------------------------------------------------------
(* Properties *)

NoDuplicates(q) == \A i, j \in 1..Len(q) : i # j => q[i] # q[j]

Failing(report) == SelectSeq(report, LAMBDA item : ~item.ok)

GateCount(score) == IF score < 65 THEN 1 ELSE 0

GapCount(missing_) == IF missing_ = <<>> THEN 0 ELSE 1

(* C1 (SpecSuggest): the list suggest_improvements returns is, in this     *)
(* order, at most one match-score suggestion, at most one missing-keyword  *)
(* suggestion (there iff missing is non-empty), one "ATS: ..." suggestion  *)
(* per failing check in the mapping's order, and the three generic         *)
(* suggestions; score 0.80 with nothing missing and every check ok gives   *)
(* exactly the generics, score 0.30 with missing = [a, b] and one failing  *)
(* check gives six suggestions.                                            *)
C1_SuggestionOrder ==
    pc = "suggest_out" =>
        LET g == GateCount(match_score)
            m == GapCount(missing)
            f == Failing(ats_report)
            n == Len(suggestions)
        IN /\ n = g + m + Len(f) + 3
           /\ g = 1 => suggestions[1] \in {LowScoreSuggestion, MidScoreSuggestion}
           /\ m = 1 =>
                /\ suggestions[g + 1][1] =
                      "Incorporate missing role-specific keywords where accurate: "
                /\ missing[1] = <<suggestions[g + 1][2]>>
           /\ \A i \in 1..Len(f) :
                suggestions[g + m + i] =
                    <<"ATS: ">> \o f[i].msg \o <<" (Improve: ", f[i].name, ").">>
           /\ \A i \in 1..3 : suggestions[n - 3 + i] = GenericSuggestions[i]
           /\ (match_score = 80 /\ missing = <<>> /\ f = <<>>)
                => suggestions = GenericSuggestions
           /\ (match_score = 30 /\ missing = <<KeywordPool[1], KeywordPool[2]>>
                 /\ Len(f) = 1)
                => /\ n = 6
                   /\ suggestions[1] = LowScoreSuggestion
                   /\ suggestions[2] =
                        <<"Incorporate missing role-specific keywords where accurate: ",
                          "a", ", ", "b", ".">>

C1_Witness ==
    /\ pc = "suggest_out"
    /\ match_score = 30
    /\ missing = <<KeywordPool[1], KeywordPool[2]>>
    /\ Len(ats_report) = 2
    /\ Len(Failing(ats_report)) = 1
    /\ ~ats_report[1].ok
    /\ Len(suggestions) = 6

(* C2 (SpecSuggest): the customize suggestion is emitted iff score < 0.45, *)
(* the strengthen suggestion iff 0.45 <= score < 0.65, neither iff         *)
(* score >= 0.65, and never both.                                          *)
C2_ScoreGate ==
    pc = "suggest_out" =>
        LET low == LowScoreSuggestion \in Range(suggestions)
            mid == MidScoreSuggestion \in Range(suggestions)
        IN /\ low <=> match_score < 45
           /\ mid <=> (45 <= match_score /\ match_score < 65)
           /\ ~(low /\ mid)
           /\ (~low /\ ~mid) <=> match_score >= 65

C2_Witness ==
    /\ pc = "suggest_out"
    /\ match_score = 45
    /\ suggestions[1] = MidScoreSuggestion

LaterStages ==
    {"normalize", "score", "keywords", "coverage", "checks", "suggest",
     "display", "export"}

(* C3 (Spec): when the extracted text is empty or whitespace-only the run  *)
(* reports the extraction error and stops: no later stage happens, in      *)
(* particular no report is displayed or exported; every report that is     *)
(* displayed or exported comes from a non-blank extracted text, after      *)
(* every stage has run.                                                    *)
C3_ExtractionFailureStops ==
    /\ ("extract" \in ran /\ pc # "check_text" /\ str_strip(resume_text) = <<>>)
          => (pc = "stopped" /\ ran = {"extract", "error"})
    /\ "error" \in ran => (pc = "stopped" /\ ran \cap LaterStages = {})
    /\ ran \cap {"display", "export"} # {}
          => /\ str_strip(resume_text) # <<>>
             /\ LaterStages \ {"display", "export"} \subseteq ran

C3_Witness ==
    /\ pc = "stopped"
    /\ resume_text = <<"LF">>
    /\ ran = {"extract", "error"}

IndexIn(q, x) == CHOOSE i \in 1..Len(q) : q[i] = x

InOrderOf(sub, q) ==
    \A i, j \in 1..Len(sub) : i < j => IndexIn(q, sub[i]) < IndexIn(q, sub[j])

(* C4 (Spec): present and missing partition the keyword list: a keyword is *)
(* in present iff it is a substring of the normalized resume text and in   *)
(* missing otherwise, and both keep the keyword list's order.              *)
C4_CoveragePartition ==
    "coverage" \in ran =>
        /\ Range(present) \cup Range(missing) = Range(jd_keywords)
        /\ Range(present) \cap Range(missing) = {}
        /\ Len(present) + Len(missing) = Len(jd_keywords)
        /\ \A i \in 1..Len(jd_keywords) :
              jd_keywords[i] \in Range(present)
                  <=> Contains(resume_clean, jd_keywords[i])
        /\ InOrderOf(present, jd_keywords)
        /\ InOrderOf(missing, jd_keywords)

C4_Witness ==
    /\ "coverage" \in ran
    /\ Len(present) >= 1
    /\ Len(missing) >= 2

SixChecks ==
    {"File Type", "Contact Info", "Clear Sections", "Bullet Structure",
     "Dates Present", "Tables/Graphics"}

(* C5 (SpecAts): ats_checks returns exactly the six named checks, each     *)
(* with a boolean ok and a message, and Tables/Graphics is always ok, so   *)
(* it never yields an "ATS:" suggestion.                                   *)
C5_SixChecks ==
    pc = "ats_out" =>
        /\ {ats_report[i].name : i \in 1..Len(ats_report)} = SixChecks
        /\ Len(ats_report) = 6
        /\ \A i \in 1..6 : ats_report[i].ok \in BOOLEAN /\ Len(ats_report[i].msg) >= 1
        /\ \A i \in 1..6 : ats_report[i].name = "Tables/Graphics" => ats_report[i].ok
        /\ \A i \in 1..Len(AtsFixes(ats_report)) :
              AtsFixes(ats_report)[i][Len(AtsFixes(ats_report)[i]) - 1] # "Tables/Graphics"

C5_Witness ==
    /\ pc = "ats_out"
    /\ Contains(resume_text, <<"TAB">>)
    /\ Len(Failing(ats_report)) = 5

(* a run of digits, spaces and hyphens that starts and ends with a digit   *)
(* and holds at least 7 digits                                             *)
SevenDigitPhone(text) ==
    \E i \in 1..Len(text) : \E j \in i..Len(text) :
        /\ text[i] \in Digit
        /\ text[j] \in Digit
        /\ \A m \in i..j : text[m] \in Digit \cup {" ", "-"}
        /\ Cardinality({m \in i..j : text[m] \in Digit}) >= 7

ContactOk(report) == \E i \in 1..Len(report) :
    report[i].name = "Contact Info" /\ report[i].ok

(* C6 (SpecAts): Contact Info is ok iff the text holds an email pattern    *)
(* and a phone-like sequence of 7 or more digits, optionally separated by  *)
(* spaces or hyphens.                                                      *)
C6_ContactInfo ==
    pc = "ats_out" =>
        (ContactOk(ats_report) <=> (HasEmail(resume_text) /\ SevenDigitPhone(resume_text)))

(* C7 (SpecKeywords): extract_keywords never raises, and on a text with no *)
(* vocabulary term (the empty text included) it returns the empty list.    *)
C7_KeywordsTotal ==
    /\ pc # "kw_raised"
    /\ (pc = "kw_out" /\ Vocabulary(<<jd_clean>>) = {}) => jd_keywords = <<>>

(* C8 (SpecScore): compute_match_score never raises, and returns 0.0 when  *)
(* either text is empty or no vocabulary term survives.                    *)
C8_ScoreTotal ==
    /\ pc # "score_raised"
    /\ (pc = "score_out"
          /\ (jd_clean = <<>> \/ resume_clean = <<>>
                \/ Vocabulary(<<jd_clean, resume_clean>>) = {}))
         => match_score = 0

(* C9 (SpecKeywords): extract_keywords returns at most top_k keywords,     *)
(* without duplicates, all among the top_k highest-weighted terms; top_k   *)
(* = 0 gives the empty list.                                               *)
C9_TopKCap ==
    pc = "kw_out" =>
        /\ Len(jd_keywords) <= top_k
        /\ NoDuplicates(jd_keywords)
        /\ \A i \in 1..Len(jd_keywords) :
              Cardinality({t \in Vocabulary(<<jd_clean>>) :
                              Tf(t, jd_clean) > Tf(jd_keywords[i], jd_clean)}) < top_k
        /\ top_k = 0 => jd_keywords = <<>>

(* C10 (SpecClean): clean_text is idempotent, and its result holds only    *)
(* lowercase letters, digits, + # . - ( ) and single spaces, with no space *)
(* at either end.                                                          *)
C10_CleanIdempotent ==
    /\ pc = "clean_twice" => jd_clean = resume_clean
    /\ pc \in {"clean_out", "clean_twice"} =>
          /\ Range(resume_clean) \subseteq Lower \cup Digit \cup AllowedSymbol \cup {" "}
          /\ resume_clean # <<>> =>
                (resume_clean[1] # " " /\ resume_clean[Len(resume_clean)] # " ")
          /\ \A i \in 1..(Len(resume_clean) - 1) :
                ~(resume_clean[i] = " " /\ resume_clean[i + 1] = " ")

C10_Witness ==
    /\ pc = "clean_twice"
    /\ resume_text = <<"A", "!", "LF", "U0130">>
    /\ jd_clean = <<"a", " ", "i">>

=============================================================================
